---- MODULE Spec2Model ----
(***************************************************************************)
(* simple-chat-gpt-cli (src/chatgpt.py): the input loop, its command       *)
(* dispatcher with the fuzzy command matcher, the sub-dialogs of the       *)
(* commands, the persistence of prompts and chats, and the streaming       *)
(* renderer.  Python strings are sequences of one-character strings, so    *)
(* that lengths, splitting, edit distance and JSON escaping are computed.  *)
(***************************************************************************)
EXTENDS Integers, Sequences, FiniteSets, TLC

VARIABLES
    messages,            \* the Conversation (chatgpt.py:520)
    last_response,       \* text of the last completed assistant turn (chatgpt.py:529)
    message,             \* the line last read at the main prompt (chatgpt.py:533)
    prompt_names,        \* cached names of the saved prompts (chatgpt.py:363)
    chat_names,          \* cached names of the saved chats (chatgpt.py:370)
    prompt_files,        \* prompts directory: name -> text of <name>.prompt
    chat_files,          \* chats directory: name -> text of <name>.chat
    LONGEST_PROMPT_NAME, \* computed once at startup (chatgpt.py:395)
    pc,                  \* "main" | "select" | "stream" | "exited"
    exit_status,         \* "none" while running, then "0" or "1"
    select_for,          \* the command whose ask_selection call is pending
    n_selections,        \* the argument of the pending ask_selection call
    request,             \* the message log handed to the collaborator this iteration
    collected_chunks,    \* chunks received in the current turn (chatgpt.py:652)
    collected_messages,  \* content fragments of the current turn (chatgpt.py:653)
    cursor,              \* virtual cursor of the renderer (chatgpt.py:650)
    printed,             \* characters printed by the renderer in the current turn
    report,              \* "" while running, then what ended the process
    clipboard,           \* text handed to xclip, <<"unset">> before any clip
    saved_log,           \* history: name -> Conversation at its last successful save
    wrap_text,           \* wrap_truecolor_text: its argument text (chatgpt.py:216)
    width_box,           \* wrap_truecolor_text: (start_x, end_x) (chatgpt.py:216)
    wrapped_text,        \* wrap_truecolor_text: the lines returned, <<"unset">> before
    lev_s1,              \* levenshtein_dist: its argument s1 (chatgpt.py:244)
    lev_s2,              \* levenshtein_dist: its argument s2 (chatgpt.py:244)
    lev_dist             \* levenshtein_dist: the distance returned, -1 before

vars == <<messages, last_response, message, prompt_names, chat_names, prompt_files,
          chat_files, LONGEST_PROMPT_NAME, pc, exit_status, select_for, n_selections,
          request, collected_chunks, collected_messages, cursor, printed, report,
          clipboard, saved_log, wrap_text, width_box, wrapped_text, lev_s1, lev_s2, lev_dist>>

-----------------------------------------------------------------------------
(* Bounds of the model *)

MaxMsgs == 3          \* messages in the Conversation
MaxChunks == 1        \* chunks of a turn in a whole session
MaxNames == 2         \* entries of prompt_names and of chat_names
MaxTurnChunks == 3    \* chunks of a turn when the renderer is studied
MaxShortLen == 3      \* letters of the short lines given to the matcher
MaxTextLen == 5       \* characters of the texts given to the wrapper
MaxLevLen == 4        \* characters of the strings given to levenshtein_dist

-----------------------------------------------------------------------------
(* Strings *)

EMPTY == <<>>
SYSTEM == <<"s", "y", "s", "t", "e", "m">>
USER == <<"u", "s", "e", "r">>
ASSISTANT == <<"a", "s", "s", "i", "s", "t", "a", "n", "t">>
ROLE_KEY == <<"r", "o", "l", "e">>
CONTENT_KEY == <<"c", "o", "n", "t", "e", "n", "t">>

W_exit == <<"e", "x", "i", "t">>
W_help == <<"h", "e", "l", "p">>
W_clip == <<"c", "l", "i", "p">>
W_save == <<"s", "a", "v", "e">>
W_prompt == <<"p", "r", "o", "m", "p", "t">>
W_chat == <<"c", "h", "a", "t">>
W_new == <<"n", "e", "w">>
W_list == <<"l", "i", "s", "t">>
W_load == <<"l", "o", "a", "d">>
SPACE == <<" ">>

\* the keys of the dict `commands`, in insertion order
commands ==
    << W_exit, W_help, W_clip,
       W_prompt \o SPACE \o W_new, W_prompt \o SPACE \o W_list, W_prompt \o SPACE \o W_load,
       W_save,
       W_chat \o SPACE \o W_new, W_chat \o SPACE \o W_list, W_chat \o SPACE \o W_load >>

\* the two-word command names
PROMPT_NEW == W_prompt \o SPACE \o W_new

PROMPT_LOAD == W_prompt \o SPACE \o W_load

CHAT_NEW == W_chat \o SPACE \o W_new

CHAT_LOAD == W_chat \o SPACE \o W_load

Range(s) == {s[i] : i \in 1..Len(s)}

Max(S) == CHOOSE x \in S : \A y \in S : y <= x

Min(S) == CHOOSE x \in S : \A y \in S : x <= y

\* str.split(' '): consecutive, leading and trailing spaces give empty tokens
RECURSIVE SplitFrom(_, _, _)
SplitFrom(s, pos, cur) ==
    IF pos > Len(s) THEN <<cur>>
    ELSE IF s[pos] = " " THEN <<cur>> \o SplitFrom(s, pos + 1, <<>>)
    ELSE SplitFrom(s, pos + 1, Append(cur, s[pos]))

split(s) == SplitFrom(s, 1, <<>>)

\* ''.join(list)
RECURSIVE join(_)
join(list) == IF list = <<>> THEN <<>> ELSE Head(list) \o join(Tail(list))

MOST_WORDS_IN_COMMAND == Max({Len(split(commands[i])) : i \in 1..Len(commands)})

LEV_DIST_CUTOFF == 6

\* max(commands.keys(), key=len): the first key of maximal length
LONGEST_COMMAND_NAME ==
    LET m == Max({Len(commands[i]) : i \in 1..Len(commands)})
    IN  commands[Min({i \in 1..Len(commands) : Len(commands[i]) = m})]

\* the cutoff changed to the length of the longest prompt name alone
CUTOFF_OF_PROMPT_NAME == LONGEST_PROMPT_NAME

SIMILAR_COMMAND_LENGTH_CUTOFF == Len(LONGEST_COMMAND_NAME) + LONGEST_PROMPT_NAME

-----------------------------------------------------------------------------
(* levenshtein_dist: the prefix matrix is filled column by column (outer    *)
(* loop over j, inner loop over i); a column is the sequence of its rows    *)
(* 0..len1, stored at indices 1..len1+1.  The uint32 cells cannot overflow *)
(* for the lengths that occur.                                              *)

\* the inner loop changed to charge a substitution for equal characters too
RECURSIVE LevColumnAlwaysSubstituting(_, _, _, _, _)
LevColumnAlwaysSubstituting(s1, s2, j, prev, cur) ==
    LET i == Len(cur)
    IN  IF i > Len(s1) THEN cur
        ELSE LET cell == Min({cur[i] + 1, prev[i + 1] + 1, prev[i] + 1})
             IN  LevColumnAlwaysSubstituting(s1, s2, j, prev, Append(cur, cell))

RECURSIVE LevColumn(_, _, _, _, _)
LevColumn(s1, s2, j, prev, cur) ==
    LET i == Len(cur)
    IN  IF i > Len(s1) THEN cur
        ELSE LET sub_cost == IF s1[i] = s2[j] THEN 0 ELSE 1
                 cell == Min({cur[i] + 1, prev[i + 1] + 1, prev[i] + sub_cost})
             IN  LevColumn(s1, s2, j, prev, Append(cur, cell))

RECURSIVE LevColumns(_, _, _, _)
LevColumns(s1, s2, j, prev) ==
    IF j > Len(s2) THEN prev
    ELSE LevColumns(s1, s2, j + 1, LevColumn(s1, s2, j, prev, <<j>>))

levenshtein_dist(s1, s2) ==
    IF Len(s1) = 0 THEN Len(s2)
    ELSE IF Len(s2) = 0 THEN Len(s1)
    ELSE LevColumns(s1, s2, 1, [i \in 1..(Len(s1) + 1) |-> i - 1])[Len(s1) + 1]

-----------------------------------------------------------------------------
(* Inputs of the model *)

U_LINE == <<"z", "\"", "z", "\\", "z", "z">>
HELP_ME_LINE == W_help \o SPACE \o <<"m", "e">> \o SPACE \o <<"n", "o", "w", "!">>
CLIP_ARG_LINE == W_clip \o SPACE \o <<"x", "x", "x", "x", "x", "x", "x">>

\* the lines typed at the main prompt
InputLines ==
    Range(commands) \cup
    { EMPTY,
      <<"e", "c", "i", "t">>,
      <<"h", "i">>,
      W_prompt,
      U_LINE,
      HELP_ME_LINE,
      CLIP_ARG_LINE }

\* the letters of the short lines given to the matcher
ShortLetters == {"e", "i", "p", "z"}

\* every line of exactly n letters
RECURSIVE LinesOfLength(_)
LinesOfLength(n) ==
    IF n = 0 THEN {EMPTY}
    ELSE {Append(shorter, letter) : shorter \in LinesOfLength(n - 1), letter \in ShortLetters}

\* every line of 1..n letters
RECURSIVE ShortLines(_)
ShortLines(n) == IF n = 0 THEN {} ELSE ShortLines(n - 1) \cup LinesOfLength(n)

ZZZZZ == <<"z", "z", "z", "z", "z">>
PROMPT_LOAF == W_prompt \o SPACE \o <<"l", "o", "a", "f">>
PROMPT_LOADX == W_prompt \o SPACE \o W_load \o <<"x">>

\* the lines given to the matcher: the lines typed at the main prompt, the short
\* lines, a line at distance 5 of four commands, a line at equal distance of the
\* three `prompt` commands, misspelt commands of 11 and 12 characters, and the
\* first words of the two-word commands, alone and followed by a space
MatcherLines ==
    InputLines \cup ShortLines(MaxShortLen)
    \cup { ZZZZZ, W_prompt \o SPACE \o <<"l">>, PROMPT_LOAF, PROMPT_LOADX,
           CHAT_LOAD \o <<"x", "x">>, W_chat, W_prompt \o SPACE, W_chat \o SPACE }

\* the lines typed in a whole session
SessionLines ==
    Range(commands) \cup { EMPTY, <<"e", "c", "i", "t">>, HELP_ME_LINE, CLIP_ARG_LINE }

ConfirmInputs == {"y", "yes", "Y"}

Names == { <<"a">>, <<"b", "b">> }

\* the name typed in a whole session
SessionNames == { <<"a">> }

PromptTexts == { <<"P">>, <<"Q", "\n">> }

\* the prompt typed in a whole session
SessionPrompts == { <<"P">> }

\* the answers typed in a whole session: one that confirm() takes, one it does not
SessionConfirm == { "y", "Y" }

\* the answers to the questions of ask_save_prompt and whether open() succeeds;
\* when the first answer declines, the other questions are not asked
DeclinedSave(names) ==
    [save_it |-> "Y", prompt_name |-> CHOOSE n \in names : TRUE, overwrite |-> "Y",
     written |-> FALSE]

SaveInputs(names) ==
    { in \in [save_it : SessionConfirm, prompt_name : names, overwrite : SessionConfirm,
              written : BOOLEAN] :
        in.save_it = "Y" => in = DeclinedSave(names) }

SessionSaveInputs == SaveInputs(SessionNames)

\* the dialogs of `chat new`: a question that is not asked has no answer
ChatNewInputs ==
    { d \in [leave : SessionConfirm, include : SessionConfirm,
             use_existing : SessionConfirm, prompt : SessionPrompts,
             in : SessionSaveInputs] :
        /\ d.leave = "Y" => d.include = "Y"
        /\ d.include = "Y" =>
              /\ d.use_existing = "Y"
              /\ d.prompt = <<"P">>
              /\ d.in = DeclinedSave(SessionNames)
        /\ d.use_existing = "y" =>
              /\ d.prompt = <<"P">>
              /\ d.in = DeclinedSave(SessionNames) }

\* the prompts directory found at startup
InitialPromptDirs == { <<>>, (<<"a">> :> <<"Q", "\n">>) }

SelectionInputs ==
    { EMPTY, <<"a">>, <<"0">>, <<"1">>, <<"2">>, <<"3">>, <<"0", "1">>, <<"U+00B2">> }

\* a streamed delta: a role announcement, a content fragment, or neither.  The
\* collaborator announces the role with no text: beside the role key the content
\* is absent or the empty string
Deltas ==
    { [has_role |-> TRUE,  has_content |-> FALSE, content |-> EMPTY],
      [has_role |-> TRUE,  has_content |-> TRUE,  content |-> EMPTY],
      [has_role |-> FALSE, has_content |-> FALSE, content |-> EMPTY],
      [has_role |-> FALSE, has_content |-> TRUE,  content |-> EMPTY],
      [has_role |-> FALSE, has_content |-> TRUE,  content |-> <<" ", "b">>],
      [has_role |-> FALSE, has_content |-> TRUE,  content |-> <<"a", " ", "b">>],
      [has_role |-> FALSE, has_content |-> TRUE,  content |-> <<"c", "\n">>],
      [has_role |-> FALSE, has_content |-> TRUE,  content |-> <<" ", "\n">>] }

\* the deltas streamed in a whole session
SessionDeltas ==
    { [has_role |-> TRUE,  has_content |-> FALSE, content |-> EMPTY],
      [has_role |-> FALSE, has_content |-> TRUE,  content |-> <<" ", "b">>] }

-----------------------------------------------------------------------------
(* find_similar_command_name *)

\* the list `distances` with the threshold lowered by one
RECURSIVE DistancesBelowFive(_, _)
DistancesBelowFive(user_input, k) ==
    IF k > Len(commands) THEN <<>>
    ELSE LET dist == levenshtein_dist(user_input, commands[k])
         IN  (IF dist < LEV_DIST_CUTOFF - 1 THEN << <<commands[k], dist>> >> ELSE <<>>)
             \o DistancesBelowFive(user_input, k + 1)

\* the list `distances`: (command_name, dist) for the commands closer than the cutoff
RECURSIVE Distances(_, _)
Distances(user_input, k) ==
    IF k > Len(commands) THEN <<>>
    ELSE LET dist == levenshtein_dist(user_input, commands[k])
         IN  (IF dist < LEV_DIST_CUTOFF THEN << <<commands[k], dist>> >> ELSE <<>>)
             \o Distances(user_input, k + 1)

\* min(distances, key=lambda c: c[1]): the first pair of least distance
FirstMinimum(distances) ==
    LET least == Min({distances[i][2] : i \in 1..Len(distances)})
    IN  distances[Min({i \in 1..Len(distances) : distances[i][2] = least})]

\* the body of find_similar_command_name after the length guard
ClosestCommand(user_input) ==
    LET distances == Distances(user_input, 1)
    IN  IF Len(distances) = 0 THEN EMPTY
        ELSE LET minimum == FirstMinimum(distances)
             IN  IF minimum[2] = 0 THEN EMPTY ELSE minimum[1]

\* ClosestCommand of every line of the model, evaluated once
ClosestCommandOf == [line \in MatcherLines |-> ClosestCommand(line)]

\* the matcher without its length guard
find_similar_unguarded(user_input) ==
    IF user_input \in MatcherLines THEN ClosestCommandOf[user_input]
    ELSE ClosestCommand(user_input)

find_similar_command_name(user_input) ==
    IF Len(user_input) >= SIMILAR_COMMAND_LENGTH_CUTOFF THEN EMPTY
    ELSE IF user_input \in MatcherLines THEN ClosestCommandOf[user_input]
    ELSE ClosestCommand(user_input)

-----------------------------------------------------------------------------
(* confirm, ask_selection *)

\* confirm(): the answer read is affirmative
confirm(are_you_sure) == are_you_sure \in {"y", "yes"}

AsciiDigits == <<"0", "1", "2", "3", "4", "5", "6", "7", "8", "9">>

\* str.isdigit(): non-empty and every character a Unicode digit; U+00B2
\* (superscript two) is one, and int() rejects it
isdigit(s) == Len(s) > 0 /\ \A i \in 1..Len(s) : s[i] \in Range(AsciiDigits) \cup {"U+00B2"}

IntRaises(s) == \E i \in 1..Len(s) : s[i] \notin Range(AsciiDigits)

DigitValue(c) == (CHOOSE i \in 1..Len(AsciiDigits) : AsciiDigits[i] = c) - 1

RECURSIVE int(_)
int(s) == IF s = <<>> THEN 0 ELSE 10 * int(SubSeq(s, 1, Len(s) - 1)) + DigitValue(s[Len(s)])

\* ask_selection accepts the entry: it leaves the loop and returns int(selected_n)
SelectionAccepts(selected_n, n) ==
    isdigit(selected_n) /\ ~IntRaises(selected_n) /\ int(selected_n) \in 1..n

-----------------------------------------------------------------------------
(* json.dump / readline / json.loads of a chat file, character by character *)

JsonEscapeChar(c) ==
    IF c = "\"" THEN <<"\\", "\"">>
    ELSE IF c = "\\" THEN <<"\\", "\\">>
    ELSE IF c = "\n" THEN <<"\\", "n">>
    ELSE <<c>>

RECURSIVE JsonEscape(_)
JsonEscape(s) == IF s = <<>> THEN <<>> ELSE JsonEscapeChar(Head(s)) \o JsonEscape(Tail(s))

JsonString(s) == <<"\"">> \o JsonEscape(s) \o <<"\"">>

JsonObject(m) ==
    <<"{">> \o JsonString(ROLE_KEY) \o <<":", " ">> \o JsonString(m.role) \o <<",", " ">>
            \o JsonString(CONTENT_KEY) \o <<":", " ">> \o JsonString(m.content) \o <<"}">>

RECURSIVE JsonObjects(_)
JsonObjects(msgs) ==
    IF msgs = <<>> THEN <<>>
    ELSE IF Len(msgs) = 1 THEN JsonObject(msgs[1])
    ELSE JsonObject(msgs[1]) \o <<",", " ">> \o JsonObjects(Tail(msgs))

\* json.dump(messages, outfile): one line, no trailing newline
dump(msgs) == <<"[">> \o JsonObjects(msgs) \o <<"]">>

\* chat_file.readline(): up to and including the first newline
readline(file) ==
    IF \E i \in 1..Len(file) : file[i] = "\n"
    THEN SubSeq(file, 1, Min({i \in 1..Len(file) : file[i] = "\n"}))
    ELSE file

ParseError == [ok |-> FALSE, val |-> <<>>, next |-> 0]

IsAt(f, pos, c) == pos <= Len(f) /\ f[pos] = c

RECURSIVE SkipSpace(_, _)
SkipSpace(f, pos) == IF IsAt(f, pos, " ") \/ IsAt(f, pos, "\n") THEN SkipSpace(f, pos + 1) ELSE pos

\* the characters of a JSON string after its opening quote
RECURSIVE ParseStringBody(_, _, _)
ParseStringBody(f, pos, acc) ==
    IF pos > Len(f) THEN ParseError
    ELSE IF f[pos] = "\"" THEN [ok |-> TRUE, val |-> acc, next |-> pos + 1]
    ELSE IF f[pos] = "\n" THEN ParseError
    ELSE IF f[pos] = "\\" THEN
        IF IsAt(f, pos + 1, "n") THEN ParseStringBody(f, pos + 2, Append(acc, "\n"))
        ELSE IF IsAt(f, pos + 1, "\"") \/ IsAt(f, pos + 1, "\\")
             THEN ParseStringBody(f, pos + 2, Append(acc, f[pos + 1]))
        ELSE ParseError
    ELSE ParseStringBody(f, pos + 1, Append(acc, f[pos]))

StringAt(f, p) ==
    IF IsAt(f, p, "\"") THEN ParseStringBody(f, p + 1, <<>>) ELSE ParseError

ParseString(f, pos) == StringAt(f, SkipSpace(f, pos))

MarkAt(f, p, c) ==
    IF IsAt(f, p, c) THEN [ok |-> TRUE, val |-> <<>>, next |-> p + 1] ELSE ParseError

\* the punctuation mark c, after optional white space
ParseMark(f, pos, c) == MarkAt(f, SkipSpace(f, pos), c)

\* a value was expected at `after.next`, if `after` was read
StringAfter(f, after) == IF after.ok THEN ParseString(f, after.next) ELSE ParseError

\* a mark was expected at `after.next`, if `after` was read
MarkAfter(f, after, c) == IF after.ok THEN ParseMark(f, after.next, c) ELSE ParseError

MemberOf(k, v) ==
    IF k.ok /\ v.ok THEN [ok |-> TRUE, val |-> <<k.val, v.val>>, next |-> v.next]
    ELSE ParseError

MemberWithKey(f, k) == MemberOf(k, StringAfter(f, MarkAfter(f, k, ":")))

\* "key": "value"
ParseMember(f, pos) == MemberWithKey(f, ParseString(f, pos))

\* a member was expected at `after.next`, if `after` was read
MemberAfter(f, after) == IF after.ok THEN ParseMember(f, after.next) ELSE ParseError

\* the Message of the two members of an object, in either order
ObjectOf(m1, m2, c) ==
    IF ~(m1.ok /\ m2.ok /\ c.ok) THEN ParseError
    ELSE IF m1.val[1] = ROLE_KEY /\ m2.val[1] = CONTENT_KEY
    THEN [ok |-> TRUE, next |-> c.next,
          val |-> [role |-> m1.val[2], content |-> m2.val[2]]]
    ELSE IF m1.val[1] = CONTENT_KEY /\ m2.val[1] = ROLE_KEY
    THEN [ok |-> TRUE, next |-> c.next,
          val |-> [role |-> m2.val[2], content |-> m1.val[2]]]
    ELSE ParseError

ObjectWithMembers(f, m1, m2) == ObjectOf(m1, m2, MarkAfter(f, m2, "}"))

ObjectWithMember(f, m1) == ObjectWithMembers(f, m1, MemberAfter(f, MarkAfter(f, m1, ",")))

\* { member , member }
ParseObject(f, pos) == ObjectWithMember(f, MemberAfter(f, ParseMark(f, pos, "{")))

\* an object was expected at `after.next`, if `after` was read
ObjectAfter(f, after) == IF after.ok THEN ParseObject(f, after.next) ELSE ParseError

\* the objects of an array after its first one, up to the closing bracket
RECURSIVE ParseMoreObjects(_, _, _)
ParseMoreObjects(f, pos, acc) ==
    IF ParseMark(f, pos, "]").ok
    THEN [ok |-> TRUE, val |-> acc, next |-> ParseMark(f, pos, "]").next]
    ELSE IF ObjectAfter(f, ParseMark(f, pos, ",")).ok
    THEN ParseMoreObjects(f, ObjectAfter(f, ParseMark(f, pos, ",")).next,
                          Append(acc, ObjectAfter(f, ParseMark(f, pos, ",")).val))
    ELSE ParseError

ArrayFrom(f, o) == IF o.ok THEN ParseMoreObjects(f, o.next, <<o.val>>) ELSE ParseError

ArrayAfter(f, b) ==
    IF ~b.ok THEN ParseError
    ELSE IF ParseMark(f, b.next, "]").ok
    THEN [ok |-> TRUE, val |-> <<>>, next |-> ParseMark(f, b.next, "]").next]
    ELSE ArrayFrom(f, ParseObject(f, b.next))

ParseArray(f, pos) == ArrayAfter(f, ParseMark(f, pos, "["))

Complete(text, a) == IF a.ok /\ SkipSpace(text, a.next) > Len(text) THEN a ELSE ParseError

\* json.loads(text): the array, with nothing but white space after it
loads(text) == Complete(text, ParseArray(text, 1))

-----------------------------------------------------------------------------
(* The session *)

TermWidth == 15
START_CURSOR == 7
END_CURSOR == TermWidth - 7

NOT_SET == <<"unset">>

Message(role, content) == [role |-> role, content |-> content]

\* print_response_lpad
lpad == [i \in 1..START_CURSOR |-> " "]

\* apply_prompt_to_messages changed to put a system Message in front in every case
apply_prompt_in_front(msgs, prompt) == <<Message(SYSTEM, prompt)>> \o msgs

\* what the caller's list holds after apply_prompt_to_messages(messages, prompt):
\* the first system Message is overwritten in place; without one, the new list
\* is bound to the local name only and the caller's list is left as it was
apply_prompt_to_messages(msgs, prompt) ==
    IF \E i \in 1..Len(msgs) : msgs[i].role = SYSTEM
    THEN LET i == Min({k \in 1..Len(msgs) : msgs[k].role = SYSTEM})
         IN  [msgs EXCEPT ![i].content = prompt]
    ELSE msgs

\* the prompts directory after save_prompt: the write succeeds, or open() fails
save_prompt(files, prompt, prompt_name, written) ==
    IF written THEN (prompt_name :> prompt) @@ files ELSE files

\* save_chat changed to open the file for appending
save_chat_appending(files, msgs, chat_name, written) ==
    IF written
    THEN (chat_name :> (IF chat_name \in DOMAIN files THEN files[chat_name] ELSE <<>>)
                       \o dump(msgs)) @@ files
    ELSE files

\* the chats directory after save_chat
save_chat(files, msgs, chat_name, written) ==
    IF written THEN (chat_name :> dump(msgs)) @@ files ELSE files

rvars == <<collected_chunks, collected_messages, cursor, printed>>

\* what no command changes: the startup constant, and the operands and results
\* of the calls of wrap_truecolor_text and levenshtein_dist studied on their own
fvars == <<LONGEST_PROMPT_NAME, wrap_text, width_box, wrapped_text, lev_s1, lev_s2,
          lev_dist>>
svars == <<select_for, n_selections>>
pvars == <<prompt_names, prompt_files>>
cvars == <<chat_names, chat_files, saved_log>>

\* the program started with no chat and no prompt named on the command line,
\* an empty chats directory, and a prompts directory that is empty or holds `a`
Startup ==
    /\ messages = <<Message(SYSTEM, EMPTY)>>
    /\ last_response = EMPTY
    /\ message = EMPTY
    /\ prompt_files \in InitialPromptDirs
    /\ \E order \in [1..Cardinality(DOMAIN prompt_files) -> DOMAIN prompt_files] :
          /\ Range(order) = DOMAIN prompt_files
          /\ prompt_names = order
    /\ chat_files = <<>>
    /\ chat_names = <<>>
    /\ LONGEST_PROMPT_NAME =
          IF Len(prompt_names) = 0 THEN 0
          ELSE Max({Len(prompt_names[i]) : i \in 1..Len(prompt_names)})
    /\ pc = "main"
    /\ exit_status = "none"
    /\ report = ""
    /\ select_for = "none"
    /\ n_selections = 0
    /\ request = <<>>
    /\ collected_chunks = <<>>
    /\ collected_messages = <<>>
    /\ cursor = START_CURSOR
    /\ printed = <<>>
    /\ clipboard = NOT_SET
    /\ saved_log = <<>>

\* no call of wrap_truecolor_text or levenshtein_dist is studied
NoCall ==
    /\ wrap_text = EMPTY
    /\ width_box = <<0, 0>>
    /\ wrapped_text = <<NOT_SET>>
    /\ lev_s1 = EMPTY
    /\ lev_s2 = EMPTY
    /\ lev_dist = -1

Init == Startup /\ NoCall

-----------------------------------------------------------------------------
(* The input loop: reading a line and dispatching it.  Every action takes   *)
(* the inputs it reads as parameters; an input that is not asked for is     *)
(* ignored.                                                                 *)

\* message = input() at the main prompt
ReadLine(line) ==
    /\ pc = "main"
    /\ message' = line

\* the iteration ends without a call of the collaborator
NoRequest == request' = <<>>

\* sys.exit(status), or an uncaught exception (status 1, the traceback is shown)
Terminate(status, why) ==
    /\ pc' = "exited"
    /\ exit_status' = status
    /\ report' = why

\* message.split(' ') of every line of the model, evaluated once
SplitOf == [line \in MatcherLines |-> split(line)]

split_message(line) == IF line \in MatcherLines THEN SplitOf[line] ELSE split(line)

\* the dispatcher changed to skip the fuzzy matcher
DispatchesUnmatched(line) == line # EMPTY

\* the line passes the empty-line test and the fuzzy matcher
Dispatches(line) ==
    /\ line # EMPTY
    /\ find_similar_command_name(line) = EMPTY

\* the dispatcher changed to look at the first word of a line of any length
Command1AnyLength(line, word) ==
    /\ line # EMPTY
    /\ split_message(line)[1] = word
    /\ Dispatches(line)

\* the branch of a one-word command is taken
Command1(line, word) ==
    /\ line # EMPTY
    /\ Len(split_message(line)) <= MOST_WORDS_IN_COMMAND
    /\ split_message(line)[1] = word
    /\ Dispatches(line)

\* the branch of a two-word command is taken
Command2(line, word1, word2) ==
    /\ Command1(line, word1)
    /\ Len(split_message(line)) >= 2
    /\ split_message(line)[2] = word2

\* split_message[1] is read and does not exist (IndexError)
SecondTokenMissing(line) ==
    /\ Command1(line, W_prompt) \/ Command1(line, W_chat)
    /\ Len(split_message(line)) < 2

\* no branch of the dispatcher ends the iteration: the line is a chat message
FallsThrough(line) ==
    /\ Dispatches(line)
    /\ \/ Len(split_message(line)) > MOST_WORDS_IN_COMMAND
       \/ split_message(line)[1] \notin {W_exit, W_help, W_clip, W_save, W_prompt, W_chat}
       \/ /\ split_message(line)[1] \in {W_prompt, W_chat}
          /\ Len(split_message(line)) >= 2
          /\ split_message(line)[2] \notin {W_new, W_list, W_load}

EmptyLine(line) ==
    /\ ReadLine(line)
    /\ NoRequest
    /\ line = EMPTY
    /\ UNCHANGED <<messages, last_response, pvars, cvars, fvars, pc,
                   exit_status, report, svars, rvars, clipboard>>

\* `Did you mean ...?`, continue
Suggest(line) ==
    /\ ReadLine(line)
    /\ NoRequest
    /\ line # EMPTY
    /\ find_similar_command_name(line) # EMPTY
    /\ UNCHANGED <<messages, last_response, pvars, cvars, fvars, pc,
                   exit_status, report, svars, rvars, clipboard>>

Exit(line) ==
    /\ ReadLine(line)
    /\ NoRequest
    /\ Command1(line, W_exit)
    /\ Terminate("0", "exit")
    /\ UNCHANGED <<messages, last_response, pvars, cvars, fvars,
                   svars, rvars, clipboard>>

Help(line) ==
    /\ ReadLine(line)
    /\ NoRequest
    /\ Command1(line, W_help)
    /\ UNCHANGED <<messages, last_response, pvars, cvars, fvars, pc,
                   exit_status, report, svars, rvars, clipboard>>

Clip(line) ==
    /\ ReadLine(line)
    /\ NoRequest
    /\ Command1(line, W_clip)
    /\ clipboard' = IF last_response = EMPTY THEN clipboard ELSE last_response
    /\ UNCHANGED <<messages, last_response, pvars, cvars, fvars, pc,
                   exit_status, report, svars, rvars>>

-----------------------------------------------------------------------------
(* prompt new | list | load *)

\* ask_save_prompt(prompt): the name is appended to prompt_names whether or not
\* the file was written, and also when it replaces a file of the same name
ask_save_prompt(prompt, in) ==
    IF ~confirm(in.save_it) THEN UNCHANGED pvars
    ELSE IF in.prompt_name \in Range(prompt_names) /\ ~confirm(in.overwrite)
    THEN UNCHANGED pvars
    ELSE /\ prompt_files' = save_prompt(prompt_files, prompt, in.prompt_name, in.written)
         /\ prompt_names' = Append(prompt_names, in.prompt_name)

\* the list that enter_prompt is called with in `prompt new`
PromptNewLog(start_new) ==
    IF last_response # EMPTY /\ confirm(start_new) THEN <<>> ELSE messages

PromptNew(line, start_new, prompt, in) ==
    /\ ReadLine(line)
    /\ NoRequest
    /\ Command2(line, W_prompt, W_new)
    \* enter_prompt(messages)
    /\ ask_save_prompt(prompt, in)
    /\ messages' = apply_prompt_to_messages(PromptNewLog(start_new), prompt)
    /\ UNCHANGED <<last_response, cvars, fvars, pc, exit_status, report,
                   svars, rvars, clipboard>>

PromptList(line) ==
    /\ ReadLine(line)
    /\ NoRequest
    /\ Command2(line, W_prompt, W_list)
    /\ UNCHANGED <<messages, last_response, pvars, cvars, fvars, pc,
                   exit_status, report, svars, rvars, clipboard>>

\* prompt load up to the call of ask_selection
PromptLoad(line, start_new) ==
    /\ ReadLine(line)
    /\ NoRequest
    /\ Command2(line, W_prompt, W_load)
    /\ IF Len(prompt_names) = 0
       THEN UNCHANGED <<messages, pc, svars>>
       ELSE IF last_response # EMPTY /\ confirm(start_new)
       THEN \* messages = []; continue
            /\ messages' = <<>>
            /\ UNCHANGED <<pc, svars>>
       ELSE \* list_saved_prompts(); ask_selection(len(prompt_names))
            /\ pc' = "select"
            /\ select_for' = "prompt load"
            /\ n_selections' = Len(prompt_names)
            /\ UNCHANGED messages
    /\ UNCHANGED <<last_response, pvars, cvars, fvars, exit_status, report,
                   rvars, clipboard>>

-----------------------------------------------------------------------------
(* save, chat new | list | load *)

\* ask_save_chat(): the name is appended to chat_names in every case
Save(line, chat_name, overwrite, written) ==
    /\ ReadLine(line)
    /\ NoRequest
    /\ Command1(line, W_save)
    /\ IF Len(chat_names) # 0 /\ chat_name \in Range(chat_names) /\ ~confirm(overwrite)
       THEN UNCHANGED cvars
       ELSE /\ chat_files' = save_chat(chat_files, messages, chat_name, written)
            /\ chat_names' = Append(chat_names, chat_name)
            /\ saved_log' = IF written THEN (chat_name :> messages) @@ saved_log
                            ELSE saved_log
    /\ UNCHANGED <<messages, last_response, pvars, fvars, pc, exit_status,
                   report, svars, rvars, clipboard>>

ChatList(line) ==
    /\ ReadLine(line)
    /\ NoRequest
    /\ Command2(line, W_chat, W_list)
    /\ UNCHANGED <<messages, last_response, pvars, cvars, fvars, pc,
                   exit_status, report, svars, rvars, clipboard>>

\* chat load up to the call of ask_selection
ChatLoad(line, leave) ==
    /\ ReadLine(line)
    /\ NoRequest
    /\ Command2(line, W_chat, W_load)
    /\ IF Len(chat_names) = 0
       THEN UNCHANGED <<pc, svars>>
       ELSE IF last_response # EMPTY /\ ~confirm(leave)
       THEN UNCHANGED <<pc, svars>>
       ELSE \* list_saved_chats(); ask_selection(len(chat_names))
            /\ pc' = "select"
            /\ select_for' = "chat load"
            /\ n_selections' = Len(chat_names)
    /\ UNCHANGED <<messages, last_response, pvars, cvars, fvars,
                   exit_status, report, rvars, clipboard>>

\* chat new up to the call of ask_selection.  The Conversation is replaced only
\* inside the `Include prompt?` branch, by a system Message holding the loop's
\* own variable `prompt`, which is '' and which enter_prompt does not set
ChatNew(line, leave, include, use_existing, prompt, in) ==
    /\ ReadLine(line)
    /\ NoRequest
    /\ Command2(line, W_chat, W_new)
    /\ IF ~confirm(leave) \/ ~confirm(include)
       THEN UNCHANGED <<messages, pvars, pc, svars>>
       ELSE IF Len(prompt_names) > 0 /\ confirm(use_existing)
       THEN \* list_saved_prompts(); ask_selection(len(chat_names))
            /\ pc' = "select"
            /\ select_for' = "chat new"
            /\ n_selections' = Len(chat_names)
            /\ UNCHANGED <<messages, pvars>>
       ELSE \* enter_prompt(messages); messages = [system: prompt]
            /\ ask_save_prompt(prompt, in)
            /\ messages' = <<Message(SYSTEM, EMPTY)>>
            /\ UNCHANGED <<pc, svars>>
    /\ UNCHANGED <<last_response, cvars, fvars, exit_status, report, rvars,
                   clipboard>>

-----------------------------------------------------------------------------
(* ask_selection and what follows it in the three commands that call it *)

\* the loop of ask_selection reads an entry and asks again
SelectionRejected(entry) ==
    /\ pc = "select"
    /\ \/ ~isdigit(entry)
       \/ /\ isdigit(entry)
          /\ ~IntRaises(entry)
          /\ int(entry) \notin 1..n_selections
    /\ UNCHANGED vars

\* int(selected_n) raises ValueError on a digit that is not a decimal digit
SelectionValueError(entry) ==
    /\ pc = "select"
    /\ isdigit(entry)
    /\ IntRaises(entry)
    /\ Terminate("1", "ValueError")
    /\ UNCHANGED <<messages, last_response, message, pvars, cvars, fvars,
                   svars, request, rvars, clipboard>>

\* back at the main prompt
SelectionDone ==
    /\ pc' = "main"
    /\ select_for' = "none"
    /\ n_selections' = 0
    /\ UNCHANGED <<exit_status, report>>

\* prompt_names[selected_n - 1] and load_prompt_from_name: the text of the prompt,
\* or the exception raised
SelectedPrompt(selected_n) ==
    IF selected_n > Len(prompt_names) THEN [raised |-> "IndexError", text |-> EMPTY]
    ELSE IF prompt_names[selected_n] \notin DOMAIN prompt_files
    THEN [raised |-> "CONFIG ERROR: Couldn't read", text |-> EMPTY]
    ELSE [raised |-> "", text |-> prompt_files[prompt_names[selected_n]]]

\* chat_names[selected_n - 1] and load_chat_from_name: the chat, or the exception
SelectedChat(selected_n) ==
    IF selected_n > Len(chat_names) THEN [raised |-> "IndexError", chat |-> <<>>]
    ELSE IF chat_names[selected_n] \notin DOMAIN chat_files
    THEN [raised |-> "CONFIG ERROR: Couldn't read", chat |-> <<>>]
    ELSE LET chat == loads(readline(chat_files[chat_names[selected_n]]))
         IN  IF chat.ok THEN [raised |-> "", chat |-> chat.val]
             ELSE [raised |-> "JSONDecodeError", chat |-> <<>>]

PromptLoadSelected(entry) ==
    /\ pc = "select"
    /\ select_for = "prompt load"
    /\ SelectionAccepts(entry, n_selections)
    /\ LET prompt == SelectedPrompt(int(entry))
       IN  IF prompt.raised # ""
           THEN Terminate("1", prompt.raised) /\ UNCHANGED <<messages, svars>>
           ELSE /\ messages' = apply_prompt_to_messages(messages, prompt.text)
                /\ SelectionDone
    /\ UNCHANGED <<last_response, message, pvars, cvars, fvars, request,
                   rvars, clipboard>>

\* chat load changed to put the loaded Messages after the ones already there
ChatLoadAppending(entry) ==
    /\ pc = "select"
    /\ select_for = "chat load"
    /\ SelectionAccepts(entry, n_selections)
    /\ LET loaded == SelectedChat(int(entry))
       IN  IF loaded.raised # ""
           THEN Terminate("1", loaded.raised) /\ UNCHANGED <<messages, svars>>
           ELSE /\ messages' = messages \o loaded.chat
                /\ SelectionDone
    /\ UNCHANGED <<last_response, message, pvars, cvars, fvars, request,
                   rvars, clipboard>>

ChatLoadSelected(entry) ==
    /\ pc = "select"
    /\ select_for = "chat load"
    /\ SelectionAccepts(entry, n_selections)
    /\ LET loaded == SelectedChat(int(entry))
       IN  IF loaded.raised # ""
           THEN Terminate("1", loaded.raised) /\ UNCHANGED <<messages, svars>>
           ELSE /\ messages' = loaded.chat
                /\ SelectionDone
    /\ UNCHANGED <<last_response, message, pvars, cvars, fvars, request,
                   rvars, clipboard>>

\* chat new with an existing prompt: the entry was checked against len(chat_names)
\* and indexes prompt_names
ChatNewSelected(entry) ==
    /\ pc = "select"
    /\ select_for = "chat new"
    /\ SelectionAccepts(entry, n_selections)
    /\ LET prompt == SelectedPrompt(int(entry))
       IN  IF prompt.raised # ""
           THEN Terminate("1", prompt.raised) /\ UNCHANGED <<messages, svars>>
           ELSE /\ messages' = <<Message(SYSTEM, prompt.text)>>
                /\ SelectionDone
    /\ UNCHANGED <<last_response, message, pvars, cvars, fvars, request,
                   rvars, clipboard>>

-----------------------------------------------------------------------------
(* A turn: the request and the streaming renderer *)

\* the line is appended as a user Message and the log is sent; the stream starts
SendMessage(line) ==
    /\ ReadLine(line)
    /\ FallsThrough(line)
    /\ messages' = Append(messages, Message(USER, line))
    /\ request' = messages'
    /\ pc' = "stream"
    /\ cursor' = START_CURSOR
    /\ collected_chunks' = <<>>
    /\ collected_messages' = <<>>
    /\ printed' = <<"\n">> \o lpad
    /\ UNCHANGED <<last_response, pvars, cvars, fvars, exit_status, report,
                   svars, clipboard>>

\* the failing request changed to record an empty assistant turn and to leave
\* with the status of the exit command
SendMessageFailsRecorded(line) ==
    /\ ReadLine(line)
    /\ FallsThrough(line)
    /\ messages' = messages \o <<Message(USER, line), Message(ASSISTANT, EMPTY)>>
    /\ request' = messages'
    /\ Terminate("0", "Something went wrong")
    /\ UNCHANGED <<last_response, pvars, cvars, fvars, svars, rvars, clipboard>>

\* openai.ChatCompletion.create raises: the message is reported, sys.exit(1)
SendMessageFails(line) ==
    /\ ReadLine(line)
    /\ FallsThrough(line)
    /\ messages' = Append(messages, Message(USER, line))
    /\ request' = messages'
    /\ Terminate("1", "Something went wrong")
    /\ UNCHANGED <<last_response, pvars, cvars, fvars, svars, rvars, clipboard>>

\* the wrap-trigger rule changed to ask for a leading space
WrapOnLeadingSpace(chunk_message, at) ==
    chunk_message # <<>> /\ Head(chunk_message) = " " /\ at > END_CURSOR

\* the wrap-trigger rule
WrapTriggered(chunk_message, at) == " " \in Range(chunk_message) /\ at > END_CURSOR

\* chunk_message as printed: chunk_message[1:] after a wrap
Stripped(chunk_message, at) ==
    IF WrapTriggered(chunk_message, at)
    THEN SubSeq(chunk_message, 2, Len(chunk_message))
    ELSE chunk_message

\* what one content fragment adds to the terminal
Rendered(chunk_message, at) ==
    (IF WrapTriggered(chunk_message, at) THEN <<"\n">> \o lpad ELSE <<>>)
    \o Stripped(chunk_message, at)
    \o (IF "\n" \in Range(Stripped(chunk_message, at)) THEN lpad ELSE <<>>)

\* the cursor after one content fragment
Advanced(chunk_message, at) ==
    IF "\n" \in Range(Stripped(chunk_message, at)) THEN START_CURSOR
    ELSE (IF WrapTriggered(chunk_message, at) THEN START_CURSOR ELSE at)
         + Len(Stripped(chunk_message, at))

\* the renderer changed to collect the fragment after the strip
CollectedStripped(chunk_message, at) == Stripped(chunk_message, at)

\* what collected_messages.append(chunk_message) stores: the fragment as received
Collected(chunk_message, at) == chunk_message

\* the iteration changed to read chunk_delta["content"] of every chunk: a chunk
\* without the key ends the process
ReceiveChunkUnguarded(delta) ==
    /\ pc = "stream"
    /\ collected_chunks' = Append(collected_chunks, delta)
    /\ IF delta.has_content
       THEN /\ collected_messages' =
                  Append(collected_messages, Collected(delta.content, cursor))
            /\ printed' = printed \o Rendered(delta.content, cursor)
            /\ cursor' = Advanced(delta.content, cursor)
            /\ UNCHANGED <<pc, exit_status, report>>
       ELSE /\ Terminate("1", "KeyError")
            /\ UNCHANGED <<collected_messages, cursor, printed>>
    /\ UNCHANGED <<messages, last_response, message, pvars, cvars, fvars,
                   svars, request, clipboard>>

\* one iteration of `for chunk in response`
ReceiveChunk(delta) ==
    /\ pc = "stream"
    /\ collected_chunks' = Append(collected_chunks, delta)
    /\ IF ~delta.has_role /\ delta.has_content
       THEN /\ collected_messages' =
                  Append(collected_messages, Collected(delta.content, cursor))
            /\ printed' = printed \o Rendered(delta.content, cursor)
            /\ cursor' = Advanced(delta.content, cursor)
       ELSE UNCHANGED <<collected_messages, cursor, printed>>
    /\ UNCHANGED <<messages, last_response, message, pvars, cvars, fvars,
                   pc, exit_status, report, svars, request, clipboard>>

\* the stream ends: the assistant turn is recorded; the locals of the turn are
\* dead until the next turn sets them again
StreamEnd ==
    /\ pc = "stream"
    /\ last_response' = join(collected_messages)
    /\ messages' = Append(messages, Message(ASSISTANT, last_response'))
    /\ pc' = "main"
    /\ request' = <<>>
    /\ collected_chunks' = <<>>
    /\ collected_messages' = <<>>
    /\ cursor' = START_CURSOR
    /\ printed' = <<>>
    /\ UNCHANGED <<message, pvars, cvars, fvars, exit_status, report, svars,
                   clipboard>>

-----------------------------------------------------------------------------
(* Spec: a whole session, every command, with one name to save under *)

\* the bounds of the session: the Conversation leaves room for the assistant
\* turn, and the name lists and the turn are bounded
WithinBounds ==
    /\ Len(messages') + (IF pc' = "stream" THEN 1 ELSE 0) <= MaxMsgs
    /\ Len(prompt_names') <= MaxNames
    /\ Len(chat_names') <= MaxNames
    /\ Len(collected_chunks') <= MaxChunks

Next ==
    \/ \E line \in SessionLines :
          \/ EmptyLine(line)
          \/ Suggest(line)
          \/ Exit(line)
          \/ Help(line)
          \/ Clip(line)
          \/ PromptList(line)
          \/ ChatList(line)
          \/ /\ Command2(line, W_prompt, W_new)
             /\ \E start_new \in SessionConfirm, prompt \in SessionPrompts,
                   in \in SessionSaveInputs :
                   PromptNew(line, start_new, prompt, in) /\ WithinBounds
          \/ /\ Command2(line, W_prompt, W_load)
             /\ \E start_new \in SessionConfirm : PromptLoad(line, start_new)
          \/ /\ Command1(line, W_save)
             /\ \E chat_name \in SessionNames, overwrite \in SessionConfirm,
                   written \in BOOLEAN :
                   Save(line, chat_name, overwrite, written) /\ WithinBounds
          \/ /\ Command2(line, W_chat, W_new)
             /\ \E d \in ChatNewInputs :
                   /\ ChatNew(line, d.leave, d.include, d.use_existing, d.prompt, d.in)
                   /\ WithinBounds
          \/ /\ Command2(line, W_chat, W_load)
             /\ \E leave \in SessionConfirm : ChatLoad(line, leave)
          \/ SendMessage(line) /\ WithinBounds
          \/ SendMessageFails(line) /\ WithinBounds
    \/ \E entry \in SelectionInputs :
          \/ SelectionRejected(entry)
          \/ SelectionValueError(entry)
          \/ PromptLoadSelected(entry)
          \/ ChatLoadSelected(entry) /\ WithinBounds
          \/ ChatNewSelected(entry)
    \/ \E delta \in SessionDeltas : ReceiveChunk(delta) /\ WithinBounds
    \/ StreamEnd

Spec == Init /\ [][Next]_vars

-----------------------------------------------------------------------------
(* SpecChats: saving chats under two names and loading them back *)

NextChats ==
    \/ \E line \in {W_save, CHAT_LOAD, PROMPT_NEW, HELP_ME_LINE, U_LINE} :
          \/ /\ Command1(line, W_save)
             /\ \E chat_name \in Names, overwrite \in SessionConfirm, written \in BOOLEAN :
                   Save(line, chat_name, overwrite, written) /\ WithinBounds
          \/ /\ Command2(line, W_chat, W_load)
             /\ \E leave \in SessionConfirm : ChatLoad(line, leave)
          \/ /\ Command2(line, W_prompt, W_new)
             /\ \E start_new \in SessionConfirm, prompt \in PromptTexts :
                   /\ PromptNew(line, start_new, prompt, DeclinedSave(SessionNames))
                   /\ WithinBounds
          \/ SendMessage(line) /\ WithinBounds
    \/ \E entry \in SelectionInputs :
          \/ SelectionRejected(entry)
          \/ ChatLoadSelected(entry) /\ WithinBounds
    \/ \E delta \in SessionDeltas : ReceiveChunk(delta) /\ WithinBounds
    \/ StreamEnd

SpecChats == Init /\ [][NextChats]_vars

-----------------------------------------------------------------------------
(* SpecTurn: one turn of the streaming renderer over every kind of chunk *)

NextTurn ==
    \/ \E line \in {HELP_ME_LINE, U_LINE} :
          \/ SendMessage(line) /\ Len(messages') < MaxMsgs
          \/ SendMessageFails(line) /\ Len(messages') < MaxMsgs
    \/ \E delta \in Deltas :
          ReceiveChunk(delta) /\ Len(collected_chunks') <= MaxTurnChunks
    \/ StreamEnd

SpecTurn == Init /\ [][NextTurn]_vars

-----------------------------------------------------------------------------
(* SpecMatcher: the matcher and the dispatcher over the lines of the matcher, *)
(* with prompts saved under two names                                         *)

NextMatcher ==
    \/ \E line \in MatcherLines :
          \/ EmptyLine(line)
          \/ Suggest(line)
          \/ Exit(line)
          \/ Help(line)
          \/ Clip(line)
          \/ PromptList(line)
          \/ ChatList(line)
          \/ SendMessageFails(line) /\ WithinBounds
    \/ \E start_new \in SessionConfirm, prompt \in SessionPrompts, in \in SaveInputs(Names) :
          PromptNew(PROMPT_NEW, start_new, prompt, in) /\ WithinBounds

SpecMatcher == Init /\ [][NextMatcher]_vars

-----------------------------------------------------------------------------
(* The Conversation and its system Message *)

\* C1: in every reachable state of a session the Conversation holds at most one
\* message with role system, and one that is present is the first message
C1_SystemMessageOnlyFirst ==
    \A i \in 1..Len(messages) : messages[i].role = SYSTEM => i = 1

\* a typed prompt was installed and a turn was completed after it
C1_Witness ==
    /\ pc = "main"
    /\ Len(messages) = 3
    /\ messages[1] = Message(SYSTEM, <<"P">>)
    /\ messages[2].role = USER
    /\ messages[3].role = ASSISTANT

\* C2 as stated: when `prompt new` completes, the first message of the
\* Conversation is a system Message whose content is the prompt just entered
C2_PromptNewInstalls ==
    [][\A start_new \in SessionConfirm, prompt \in SessionPrompts,
          in \in SessionSaveInputs :
          PromptNew(PROMPT_NEW, start_new, prompt, in) =>
              /\ Len(messages') > 0
              /\ messages'[1] = Message(SYSTEM, prompt)]_vars

\* C3 as stated: `chat new` with the leave confirmed leaves one system Message
\* holding the attached prompt (selected, typed, or empty when no prompt is
\* included); with the leave declined the Conversation is unchanged
C3_ChatNewReplaces ==
    [][/\ \A d \in ChatNewInputs :
             ChatNew(CHAT_NEW, d.leave, d.include, d.use_existing, d.prompt, d.in) =>
                 IF ~confirm(d.leave) THEN messages' = messages
                 ELSE IF ~confirm(d.include) THEN messages' = <<Message(SYSTEM, EMPTY)>>
                 ELSE pc' = "main" => messages' = <<Message(SYSTEM, d.prompt)>>
       /\ \A entry \in SelectionInputs :
             ChatNewSelected(entry) /\ pc' = "main" =>
                 messages' = <<Message(SYSTEM, prompt_files[prompt_names[int(entry)]])>>
      ]_vars

\* C4 as stated: `prompt load` with a saved prompt always goes on to list and
\* select, and the selection k ends with the text of the k-th listed prompt in a
\* system Message at the front of the Conversation
C4_PromptLoadSelects ==
    [][/\ \A start_new \in SessionConfirm :
             PromptLoad(PROMPT_LOAD, start_new) /\ Len(prompt_names) > 0 =>
                 pc' = "select" /\ select_for' = "prompt load"
       /\ \A entry \in SelectionInputs :
             PromptLoadSelected(entry) /\ pc' = "main" =>
                 /\ Len(messages') > 0
                 /\ messages'[1] =
                        Message(SYSTEM, prompt_files[prompt_names[int(entry)]])
      ]_vars

-----------------------------------------------------------------------------
(* Saved chats *)

\* C5: a `chat load` with selection k replaces the Conversation by exactly the
\* Messages held in the file of the k-th listed chat, and a declined `leave
\* current chat` leaves the Conversation exactly as it was
C5_ChatLoadReplacesWhole ==
    [][/\ \A entry \in SelectionInputs :
             ChatLoadSelected(entry) /\ pc' = "main" =>
                 messages' = loads(readline(chat_files[chat_names[int(entry)]])).val
       /\ \A leave \in SessionConfirm :
             ChatLoad(CHAT_LOAD, leave) /\ last_response # EMPTY /\ ~confirm(leave) =>
                 messages' = messages /\ pc' = "main"
      ]_vars

\* the second listed chat, of one Message, is the Conversation after a turn
\* was completed and `chat load` was the last command
C5_Witness ==
    /\ pc = "main"
    /\ message = CHAT_LOAD
    /\ last_response # EMPTY
    /\ Len(chat_names) = 2
    /\ chat_names[2] \in DOMAIN chat_files
    /\ chat_names[1] # chat_names[2]
    /\ Len(messages) = 1
    /\ messages = loads(readline(chat_files[chat_names[2]])).val

\* C6: a `chat load` that selects a name whose `save` succeeded yields the
\* Conversation as it was at that save, whatever was appended in between
C6_SaveLoadRoundTrip ==
    [][\A entry \in SelectionInputs :
          /\ ChatLoadSelected(entry)
          /\ chat_names[int(entry)] \in DOMAIN saved_log
          => /\ pc' = "main"
             /\ messages' = saved_log[chat_names[int(entry)]]]_vars

\* a Conversation whose system Message holds a line feed is back after a chat
\* load, a turn having been completed since it was saved
C6_Witness ==
    /\ pc = "main"
    /\ message = CHAT_LOAD
    /\ last_response # EMPTY
    /\ messages = <<Message(SYSTEM, <<"Q", "\n">>)>>
    /\ \E n \in DOMAIN saved_log : saved_log[n] = messages

-----------------------------------------------------------------------------
(* The streaming renderer *)

\* the contents of the chunks that carry content, in arrival order
RECURSIVE Concatenation(_)
Concatenation(chunks) ==
    IF chunks = <<>> THEN EMPTY
    ELSE (IF Head(chunks).has_content THEN Head(chunks).content ELSE EMPTY)
         \o Concatenation(Tail(chunks))

-----------------------------------------------------------------------------
(* The dispatcher *)

\* the first token, or the first two tokens, of the line are a command name
StartsWithCommand(line) ==
    LET t == split_message(line)
    IN  \/ t[1] \in Range(commands)
        \/ Len(t) >= 2 /\ t[1] \o SPACE \o t[2] \in Range(commands)

\* the line has at most MOST_WORDS_IN_COMMAND tokens and starts with a command
IsCommandLine(line) ==
    /\ Len(split_message(line)) <= MOST_WORDS_IN_COMMAND
    /\ StartsWithCommand(line)

\* the line read is appended as one user Message and the whole log is sent
SentAsChat ==
    /\ messages' = Append(messages, Message(USER, message'))
    /\ request' = messages'

\* the line read is not appended as a user turn and nothing is sent
NotSentAsChat ==
    /\ messages' # Append(messages, Message(USER, message'))
    /\ request' = <<>>
    /\ pc' # "stream"

\* C8 as stated: a non-empty line that starts with a command name is dispatched
\* and not appended; every other non-empty line is appended as a user Message
\* and the log that ends with it is sent
C8_Dispatch ==
    [][pc = "main" /\ message' # EMPTY =>
          IF StartsWithCommand(message') THEN NotSentAsChat ELSE SentAsChat]_vars

\* C8 amended: for a non-empty line that gets no fuzzy suggestion, the command
\* is dispatched, and nothing appended or sent, when the line has at most two
\* space-separated tokens and starts with a command name; every other such line
\* is appended whole as a user Message and the log that ends with it is sent
C8_DispatchAmended ==
    [][/\ pc = "main"
       /\ message' # EMPTY
       /\ find_similar_command_name(message') = EMPTY
       => IF IsCommandLine(message') THEN NotSentAsChat ELSE SentAsChat]_vars

\* a line of three tokens that starts with `help` was sent as a chat message
C8_Witness ==
    /\ pc = "stream"
    /\ message = HELP_ME_LINE
    /\ request = messages
    /\ messages[Len(messages)] = Message(USER, HELP_ME_LINE)

\* C9: an iteration whose line gets a suggestion from the fuzzy matcher leaves
\* the Conversation, the last response and the name lists as they were, sends
\* no request and is back at the prompt
C9_SuggestionChangesNothing ==
    [][/\ pc = "main"
       /\ message' # EMPTY
       /\ find_similar_command_name(message') # EMPTY
       => /\ UNCHANGED <<messages, last_response, prompt_names, chat_names>>
          /\ request' = <<>>
          /\ pc' = "main"]_vars

\* a suggestion was made for the last line, after a completed turn
C9_Witness ==
    /\ pc = "main"
    /\ message # EMPTY
    /\ find_similar_command_name(message) # EMPTY
    /\ last_response # EMPTY
    /\ Len(messages) = 3
    /\ request = <<>>

-----------------------------------------------------------------------------
(* Selections *)

\* C10 as stated: a selection accepted in `prompt load`, `chat load` or `chat new`
\* is a number from 1 to the length of the list that was displayed, and the
\* lookup of the name is within bounds
C10_SelectionWithinDisplayedList ==
    [][\A entry \in SelectionInputs :
          /\ PromptLoadSelected(entry) =>
                 int(entry) \in 1..Len(prompt_names) /\ report' # "IndexError"
          /\ ChatLoadSelected(entry) =>
                 int(entry) \in 1..Len(chat_names) /\ report' # "IndexError"
          /\ ChatNewSelected(entry) =>
                 int(entry) \in 1..Len(prompt_names) /\ report' # "IndexError"
      ]_vars

\* the number of names in the list that the pending selection displayed
DisplayedNames ==
    IF select_for = "chat load" THEN Len(chat_names) ELSE Len(prompt_names)

\* C11 as stated: a selection is never requested with an empty acceptable
\* range, the acceptable entries are the indices of the displayed list, and no
\* entry ends the process: the dialog goes on asking or returns to the prompt
C11_SelectionTerminates ==
    [][/\ pc' = "select" => n_selections' >= 1 /\ n_selections' = DisplayedNames'
       /\ pc = "select" => pc' \in {"select", "main"}]_vars

-----------------------------------------------------------------------------
(* Saving *)

\* C12 as stated: when the write of a chat file or of a prompt file fails, the
\* Conversation and the name lists are what they were before the save attempt
\* and the loop goes on
C12_FailedWriteKeepsState ==
    [][/\ \A chat_name \in SessionNames, overwrite \in SessionConfirm :
             Save(W_save, chat_name, overwrite, FALSE) =>
                 /\ UNCHANGED <<messages, prompt_names, chat_names>>
                 /\ pc' = "main"
       /\ \A start_new \in SessionConfirm, prompt \in SessionPrompts,
             in \in SessionSaveInputs :
             PromptNew(PROMPT_NEW, start_new, prompt, in) /\ ~in.written =>
                 /\ UNCHANGED <<prompt_names, chat_names>>
                 /\ messages' = apply_prompt_to_messages(PromptNewLog(start_new), prompt)
                 /\ pc' = "main"
      ]_vars

-----------------------------------------------------------------------------
(* Failure of the collaborator call, exit statuses *)

\* the number of assistant Messages of a Conversation
Assistants(msgs) == Cardinality({i \in 1..Len(msgs) : msgs[i].role = ASSISTANT})

\* C13: when the collaborator call fails before streaming starts, a message is
\* reported and the process ends with status 1, the Conversation gains the user
\* Message of the turn and no assistant Message; and a process that ended with
\* status 0 ended by the `exit` command
C13_FailedCallExitsWithOne ==
    [][/\ \A line \in SessionLines :
             SendMessageFails(line) =>
                /\ pc' = "exited"
                /\ exit_status' = "1"
                /\ report' # ""
                /\ messages' = Append(messages, Message(USER, line))
                /\ Assistants(messages') = Assistants(messages)
                /\ last_response' = last_response
       /\ exit_status' = "0" =>
             /\ pc' = "exited"
             /\ report' = "exit"
             /\ message' = W_exit
             /\ messages' = messages
      ]_vars

\* a request failed after a completed turn: the process ended with status 1 and
\* the Conversation ends with the user Message that was being sent
C13_Witness ==
    /\ pc = "exited"
    /\ exit_status = "1"
    /\ report = "Something went wrong"
    /\ Len(messages) >= 3
    /\ messages[Len(messages)].role = USER
    /\ messages[Len(messages) - 1].role = ASSISTANT
    /\ request = messages

-----------------------------------------------------------------------------
(* clip *)

\* C14 as stated: the text kept for `clip` is the concatenation of the chunks of
\* the last assistant turn; `clip` leaves the Conversation unchanged, puts that
\* text on the clipboard once an assistant turn has occurred, and does nothing
\* to the clipboard before the first one
C14_ClipCopiesLastTurn ==
    [][/\ StreamEnd => last_response' = Concatenation(collected_chunks)
       /\ \A line \in SessionLines :
             Clip(line) =>
                /\ messages' = messages
                /\ Assistants(messages) > 0 => clipboard' = last_response
                /\ Assistants(messages) = 0 /\ last_response = EMPTY =>
                      clipboard' = clipboard
      ]_vars

-----------------------------------------------------------------------------
(* The fuzzy matcher *)

\* the cutoff of the saved names: the length of the longest command name plus
\* the length of the longest name in the list of saved prompts, 0 for no name
CutoffOfSavedNames ==
    Len(LONGEST_COMMAND_NAME)
    + (IF Len(prompt_names) = 0 THEN 0
       ELSE Max({Len(prompt_names[i]) : i \in 1..Len(prompt_names)}))

\* C15: in every reachable state, for every line at least as long as the cutoff
\* (the one computed at startup, or the one of the prompt names saved by now)
\* the matcher returns no suggestion, whatever the line holds
C15_NoSuggestionAtCutoff ==
    \A line \in MatcherLines :
        \/ Len(line) >= SIMILAR_COMMAND_LENGTH_CUTOFF
        \/ Len(line) >= CutoffOfSavedNames
        => find_similar_command_name(line) = EMPTY

\* a line one letter away from `prompt load`, as long as the cutoff or longer,
\* was read, was not answered with a suggestion and was sent as a chat message
C15_Witness ==
    /\ message = PROMPT_LOADX
    /\ Len(message) >= SIMILAR_COMMAND_LENGTH_CUTOFF
    /\ find_similar_unguarded(message) = PROMPT_LOAD
    /\ request = Append(<<Message(SYSTEM, EMPTY)>>, Message(USER, message))
    /\ report = "Something went wrong"

\* the reference of the matcher: no suggestion when no command is close or when
\* the least distance is 0, else the first command, in the order of the command
\* mapping, among the close commands of least distance
Reference(line) ==
    LET close == {k \in 1..Len(commands) :
                     levenshtein_dist(line, commands[k]) < LEV_DIST_CUTOFF}
        least == Min({levenshtein_dist(line, commands[k]) : k \in close})
    IN  IF close = {} THEN EMPTY
        ELSE IF least = 0 THEN EMPTY
        ELSE commands[Min({k \in close : levenshtein_dist(line, commands[k]) = least})]

\* Reference of every line given to the matcher, evaluated once
ReferenceOf == [line \in MatcherLines |-> Reference(line)]

\* C16 as stated: in every reachable state, for every line shorter than the
\* cutoff (the longest command name plus the longest saved prompt name) the
\* matcher returns what the reference returns
C16_MatcherEqualsReference ==
    \A line \in MatcherLines :
        Len(line) < CutoffOfSavedNames =>
            find_similar_command_name(line) = ReferenceOf[line]

-----------------------------------------------------------------------------
(* The name lists *)

\* every entry of the list is listed once
ListedOnce(names) == \A i, j \in 1..Len(names) : names[i] = names[j] => i = j

\* C17 as stated: in every reachable state each saved-chat name and each
\* saved-prompt name appears exactly once in its name list, and every persisted
\* name is listed
C17_NamesListedOnce ==
    /\ ListedOnce(chat_names)
    /\ ListedOnce(prompt_names)
    /\ DOMAIN chat_files \subseteq Range(chat_names)
    /\ DOMAIN prompt_files \subseteq Range(prompt_names)

-----------------------------------------------------------------------------
(* The wrap of the streaming renderer *)

\* the characters of a text that are neither spaces nor line breaks
RECURSIVE NonSpace(_)
NonSpace(text) ==
    IF text = <<>> THEN <<>>
    ELSE (IF Head(text) \in {" ", "\n"} THEN <<>> ELSE <<Head(text)>>)
         \o NonSpace(Tail(text))

\* C18 as stated: a fragment that triggers a wrap starts with a space, so that
\* the strip removes a leading space and nothing else, and after every chunk the
\* terminal output of the turn holds every non-space character of the fragments
\* received so far, in order
C18_OnlySpacesDropped ==
    [][\A delta \in Deltas :
          ReceiveChunk(delta) /\ ~delta.has_role /\ delta.has_content =>
             /\ WrapTriggered(delta.content, cursor) => Head(delta.content) = " "
             /\ NonSpace(printed') = NonSpace(join(collected_messages'))
      ]_vars

\* the step printed a line break and the left-pad before anything else
WrapEmitted ==
    /\ Len(printed') >= Len(printed) + 1 + START_CURSOR
    /\ SubSeq(printed', Len(printed) + 1, Len(printed) + 1 + START_CURSOR) = <<"\n">> \o lpad

\* the fragment as printed: without its first character after a wrap
AsPrinted(fragment, at) ==
    IF " " \in Range(fragment) /\ at > END_CURSOR THEN Tail(fragment) ELSE fragment

\* C19 as stated: a wrap is emitted before a fragment exactly when the fragment
\* contains a space and the cursor is greater than END_CURSOR; after a wrapped
\* fragment the cursor is START_CURSOR plus the length of the fragment as
\* printed, and after a fragment that is not wrapped and has no line break it is
\* the previous cursor plus the length of the fragment
C19_CursorAfterFragment ==
    [][\A delta \in Deltas :
          ReceiveChunk(delta) /\ ~delta.has_role /\ delta.has_content =>
             /\ WrapEmitted <=> (" " \in Range(delta.content) /\ cursor > END_CURSOR)
             /\ WrapEmitted =>
                   cursor' = START_CURSOR + Len(AsPrinted(delta.content, cursor))
             /\ ~WrapEmitted /\ "\n" \notin Range(delta.content) =>
                   cursor' = cursor + Len(delta.content)
      ]_vars

\* C19, amended: a wrap is emitted before a fragment exactly when the fragment
\* contains a space and the cursor is greater than END_CURSOR; after a fragment
\* whose printed text holds a line break the cursor is START_CURSOR, wrapped or
\* not; otherwise it is START_CURSOR plus the printed length after a wrap, and
\* the previous cursor plus the length of the fragment without a wrap
C19_CursorAfterFragmentAmended ==
    [][\A delta \in Deltas :
          ReceiveChunk(delta) /\ ~delta.has_role /\ delta.has_content =>
             /\ WrapEmitted <=> (" " \in Range(delta.content) /\ cursor > END_CURSOR)
             /\ "\n" \in Range(AsPrinted(delta.content, cursor)) => cursor' = START_CURSOR
             /\ WrapEmitted /\ "\n" \notin Range(AsPrinted(delta.content, cursor)) =>
                   cursor' = START_CURSOR + Len(AsPrinted(delta.content, cursor))
             /\ ~WrapEmitted /\ "\n" \notin Range(delta.content) =>
                   cursor' = cursor + Len(delta.content)
      ]_vars

\* a fragment with a space and a line break arrived past END_CURSOR and was
\* wrapped: the cursor is START_CURSOR and not one more
C19_Witness ==
    /\ pc = "stream"
    /\ collected_messages = << <<"a", " ", "b">>, <<" ", "\n">> >>
    /\ cursor = START_CURSOR
    /\ printed = <<"\n">> \o lpad \o <<"a", " ", "b", "\n">> \o lpad \o <<"\n">> \o lpad

-----------------------------------------------------------------------------
(* Decoding a chunk *)

-----------------------------------------------------------------------------
(* The text wrapper: len_truecolor, wrap_truecolor_text *)

\* the character U+001B
ESC == "ESC"

AsciiLetters ==
    {"a", "b", "c", "d", "e", "f", "g", "h", "i", "j", "k", "l", "m", "n", "o", "p", "q",
     "r", "s", "t", "u", "v", "w", "x", "y", "z", "A", "B", "C", "D", "E", "F", "G", "H",
     "I", "J", "K", "L", "M", "N", "O", "P", "Q", "R", "S", "T", "U", "V", "W", "X", "Y",
     "Z"}

\* [\d;]* from position i: the first position that is neither a digit nor `;`
RECURSIVE ParamsEnd(_, _)
ParamsEnd(s, i) ==
    IF i <= Len(s) /\ s[i] \in Range(AsciiDigits) \cup {";"} THEN ParamsEnd(s, i + 1) ELSE i

\* TRUECOLOR_PATTERN.sub('', s) from position i: every match of
\* \x1b\[([\d;]*)([A-Za-z]) is removed, leftmost first
RECURSIVE SubTruecolor(_, _)
SubTruecolor(s, i) ==
    IF i > Len(s) THEN <<>>
    ELSE IF /\ s[i] = ESC
            /\ i + 1 <= Len(s)
            /\ s[i + 1] = "["
            /\ ParamsEnd(s, i + 2) <= Len(s)
            /\ s[ParamsEnd(s, i + 2)] \in AsciiLetters
         THEN SubTruecolor(s, ParamsEnd(s, i + 2) + 1)
         ELSE <<s[i]>> \o SubTruecolor(s, i + 1)

len_truecolor(truecolor_string) == Len(SubTruecolor(truecolor_string, 1))

\* the packing loop changed to append while the sum does not exceed max_width
RECURSIVE PackUpToWidth(_, _, _, _, _)
PackUpToWidth(words, k, line, wrapped, max_width) ==
    IF k > Len(words) THEN Append(wrapped, line)
    ELSE IF len_truecolor(line) + len_truecolor(words[k]) <= max_width
    THEN PackUpToWidth(words, k + 1, line \o SPACE \o words[k], wrapped, max_width)
    ELSE PackUpToWidth(words, k + 1, words[k], Append(wrapped, line), max_width)

\* the packing loop changed to measure the word alone
RECURSIVE PackMeasuringWord(_, _, _, _, _)
PackMeasuringWord(words, k, line, wrapped, max_width) ==
    IF k > Len(words) THEN Append(wrapped, line)
    ELSE IF len_truecolor(words[k]) < max_width
    THEN PackMeasuringWord(words, k + 1, line \o SPACE \o words[k], wrapped, max_width)
    ELSE PackMeasuringWord(words, k + 1, words[k], Append(wrapped, line), max_width)

\* the packing loop changed to start the new line empty after a flush
RECURSIVE PackDroppingWord(_, _, _, _, _)
PackDroppingWord(words, k, line, wrapped, max_width) ==
    IF k > Len(words) THEN Append(wrapped, line)
    ELSE IF len_truecolor(line) + len_truecolor(words[k]) < max_width
    THEN PackDroppingWord(words, k + 1, line \o SPACE \o words[k], wrapped, max_width)
    ELSE PackDroppingWord(words, k + 1, <<>>, Append(wrapped, line), max_width)

\* `for word in words[1:]` from the k-th word on, then the last line is flushed
RECURSIVE Pack(_, _, _, _, _)
Pack(words, k, line, wrapped, max_width) ==
    IF k > Len(words) THEN Append(wrapped, line)
    ELSE IF len_truecolor(line) + len_truecolor(words[k]) < max_width
    THEN Pack(words, k + 1, line \o SPACE \o words[k], wrapped, max_width)
    ELSE Pack(words, k + 1, words[k], Append(wrapped, line), max_width)

\* wrap_truecolor_text(text, width_box, pos): pos only sets a local never read
wrap_truecolor_text(txt, box, pos) ==
    IF Len(split(txt)) = 1 THEN split(txt)
    ELSE SelectSeq(Pack(split(txt), 2, split(txt)[1], <<>>, box[2] - box[1]),
                   LAMBDA line : line # <<>>)

\* the characters of the texts given to the wrapper
TextLetters == {" ", "m", ESC, "[", "1"}

\* every text of exactly n characters
RECURSIVE TextsOfLength(_)
TextsOfLength(n) ==
    IF n = 0 THEN {EMPTY}
    ELSE {Append(shorter, c) : shorter \in TextsOfLength(n - 1), c \in TextLetters}

\* every text of 0..n characters
RECURSIVE Texts(_)
Texts(n) == IF n = 0 THEN {EMPTY} ELSE Texts(n - 1) \cup TextsOfLength(n)

\* the windows (start_x, end_x): of 3 columns, of 1 column, of 3 columns from 2
WidthBoxes == { <<0, 3>>, <<2, 3>>, <<2, 5>> }

\* a text and a window are given, nothing is wrapped yet
InitWrap ==
    /\ Startup
    /\ prompt_files = <<>>
    /\ wrap_text \in Texts(MaxTextLen)
    /\ width_box \in WidthBoxes
    /\ wrapped_text = <<NOT_SET>>
    /\ lev_s1 = EMPTY
    /\ lev_s2 = EMPTY
    /\ lev_dist = -1

\* the call as print_help_message makes it: pos is the start of the window
WrapText ==
    /\ wrapped_text = <<NOT_SET>>
    /\ wrapped_text' = wrap_truecolor_text(wrap_text, width_box, width_box[1])
    /\ UNCHANGED <<messages, last_response, message, pvars, cvars, LONGEST_PROMPT_NAME,
                   pc, exit_status, report, svars, request, rvars, clipboard, wrap_text,
                   width_box, lev_s1, lev_s2, lev_dist>>

SpecWrap == InitWrap /\ [][WrapText]_vars

\* the width of the window
MaxWidth == width_box[2] - width_box[1]

\* the position after the word that starts after position p of the line
WordEnd(line, p) ==
    Min({q \in (p + 1)..(Len(line) + 1) : q = Len(line) + 1 \/ line[q] = " "})

\* the lines returned that hold two or more words
PackedLines ==
    IF wrapped_text = <<NOT_SET>> THEN {}
    ELSE {wrapped_text[n] : n \in {m \in 1..Len(wrapped_text) : " " \in Range(wrapped_text[m])}}

\* C21 as stated: in the lines returned, every word that was appended to a line
\* left the line, with the space and the word, strictly narrower than the
\* window; every line of two or more words is strictly narrower than the window
C21_PackingRule ==
    \A line \in PackedLines :
        /\ \A p \in 1..Len(line) :
              line[p] = " " =>
                 len_truecolor(SubSeq(line, 1, WordEnd(line, p) - 1)) < MaxWidth
        /\ len_truecolor(line) < MaxWidth

\* C21, amended: every word that was appended to a line was appended when the
\* measured length of the line plus the measured length of the word, the space
\* not counted, was strictly less than the width of the window; every line of
\* two or more words is at most as wide as the window
C21_PackingRuleAmended ==
    \A line \in PackedLines :
        /\ \A p \in 1..Len(line) :
              line[p] = " " =>
                 len_truecolor(SubSeq(line, 1, p - 1))
                 + len_truecolor(SubSeq(line, p + 1, WordEnd(line, p) - 1)) < MaxWidth
        /\ len_truecolor(line) <= MaxWidth

\* two words were packed into a line exactly as wide as the window
C21_Witness ==
    /\ wrap_text = <<"m", " ", "m">>
    /\ width_box = <<0, 3>>
    /\ wrapped_text = << <<"m", " ", "m">> >>

\* C22: after the call, every line returned has measured length at most the
\* width of the window, or holds no space and is one of the words of the text,
\* unmodified
C22_WidthBound ==
    wrapped_text # <<NOT_SET>> =>
        \A n \in 1..Len(wrapped_text) :
            \/ len_truecolor(wrapped_text[n]) <= MaxWidth
            \/ /\ " " \notin Range(wrapped_text[n])
               /\ wrapped_text[n] \in Range(split(wrap_text))

\* a word of two columns was returned on a line of its own for a window of one
C22_Witness ==
    /\ wrap_text = <<"m", " ", "m", "m">>
    /\ width_box = <<2, 3>>
    /\ wrapped_text = << <<"m">>, <<"m", "m">> >>

\* the lines joined with single spaces
RECURSIVE JoinedWithSpaces(_)
JoinedWithSpaces(lines) ==
    IF lines = <<>> THEN <<>>
    ELSE IF Len(lines) = 1 THEN lines[1]
    ELSE lines[1] \o SPACE \o JoinedWithSpaces(Tail(lines))

\* the non-empty tokens of a text, in order
Tokens(txt) == SelectSeq(split(txt), LAMBDA word : word # <<>>)

\* C23: after the call, the lines returned, joined with single spaces and split
\* into non-empty tokens, give the sequence of non-empty tokens of the text
C23_TokensPreserved ==
    wrapped_text # <<NOT_SET>> =>
        Tokens(JoinedWithSpaces(wrapped_text)) = Tokens(wrap_text)

\* a text with a leading space and two consecutive spaces was wrapped into a
\* window of one column: the empty lines were dropped and both words returned
C23_Witness ==
    /\ wrap_text = <<" ", "m", " ", " ", "1">>
    /\ width_box = <<2, 3>>
    /\ wrapped_text = << <<"m">>, <<"1">> >>

-----------------------------------------------------------------------------
(* levenshtein_dist on its own *)

\* every string of exactly n characters over {a, b}
RECURSIVE LevStringsOfLength(_)
LevStringsOfLength(n) ==
    IF n = 0 THEN {EMPTY}
    ELSE {Append(shorter, c) : shorter \in LevStringsOfLength(n - 1), c \in {"a", "b"}}

\* every string of 0..n characters over {a, b}
RECURSIVE LevStrings(_)
LevStrings(n) == IF n = 0 THEN {EMPTY} ELSE LevStrings(n - 1) \cup LevStringsOfLength(n)

\* two strings are given, no distance is computed yet
InitLev ==
    /\ Startup
    /\ prompt_files = <<>>
    /\ wrap_text = EMPTY
    /\ width_box = <<0, 0>>
    /\ wrapped_text = <<NOT_SET>>
    /\ lev_s1 \in LevStrings(MaxLevLen)
    /\ lev_s2 \in LevStrings(MaxLevLen)
    /\ lev_dist = -1

\* dist = levenshtein_dist(user_input, command_name)
Distance ==
    /\ lev_dist = -1
    /\ lev_dist' = levenshtein_dist(lev_s1, lev_s2)
    /\ UNCHANGED <<messages, last_response, message, pvars, cvars, LONGEST_PROMPT_NAME,
                   pc, exit_status, report, svars, request, rvars, clipboard, wrap_text,
                   width_box, wrapped_text, lev_s1, lev_s2>>

SpecLev == InitLev /\ [][Distance]_vars

\* the classic edit distance: the least number of insertions, deletions and
\* substitutions, each of cost 1, that turn s into t
RECURSIVE EditDistance(_, _)
EditDistance(s, t) ==
    IF s = <<>> THEN Len(t)
    ELSE IF t = <<>> THEN Len(s)
    ELSE Min({EditDistance(Tail(s), t) + 1,
              EditDistance(s, Tail(t)) + 1,
              EditDistance(Tail(s), Tail(t)) + (IF Head(s) = Head(t) THEN 0 ELSE 1)})

\* C24: the distance returned is the classic edit distance of the two strings;
\* it is 0 for equal strings, the length of the other string when one string is
\* empty, and the same with the arguments exchanged
C24_LevenshteinIsEditDistance ==
    lev_dist # -1 =>
        /\ lev_dist = EditDistance(lev_s1, lev_s2)
        /\ lev_s1 = lev_s2 => lev_dist = 0
        /\ lev_s1 = EMPTY => lev_dist = Len(lev_s2)
        /\ lev_s2 = EMPTY => lev_dist = Len(lev_s1)
        /\ lev_dist = levenshtein_dist(lev_s2, lev_s1)

\* the distance of abab and baba was computed: one deletion and one insertion
C24_Witness ==
    /\ lev_s1 = <<"a", "b", "a", "b">>
    /\ lev_s2 = <<"b", "a", "b", "a">>
    /\ lev_dist = 2

-----------------------------------------------------------------------------
(* The last response and the active chat *)

\* the positions of the assistant Messages of the Conversation
AssistantTurns == {i \in 1..Len(messages) : messages[i].role = ASSISTANT}

\* C25 as stated: in every reachable state, a non-empty last-response text is
\* the content of the last assistant Message of the current Conversation
C25_LastResponseOfActiveChat ==
    last_response # EMPTY =>
        /\ AssistantTurns # {}
        /\ messages[Max(AssistantTurns)].content = last_response

-----------------------------------------------------------------------------
(* The second token of the two-word commands *)

\* C26: in every reachable state, a line that reaches the `prompt` or the `chat`
\* branch of the dispatcher has at least two tokens; the lines `prompt` and
\* `chat` are answered with a suggestion by the matcher
C26_SecondTokenExists ==
    /\ \A line \in MatcherLines :
          /\ line # EMPTY
          /\ find_similar_command_name(line) = EMPTY
          /\ Len(split_message(line)) <= MOST_WORDS_IN_COMMAND
          /\ split_message(line)[1] \in {W_prompt, W_chat}
          => Len(split_message(line)) >= 2
    /\ find_similar_command_name(W_prompt) # EMPTY
    /\ find_similar_command_name(W_chat) # EMPTY

\* the line `chat` was read with a prompt saved under a name of two letters:
\* the loop went on without a request and without a change of the Conversation
C26_Witness ==
    /\ message = W_chat
    /\ pc = "main"
    /\ <<"b", "b">> \in Range(prompt_names)
    /\ request = <<>>
    /\ messages = <<Message(SYSTEM, <<"P">>)>>

\* a non-empty line of at most 5 characters that is not a command name
ShortNonCommand(line) ==
    /\ line # EMPTY
    /\ Len(line) <= 5
    /\ line \notin Range(commands)

\* C27: every non-empty line of at most 5 characters that is not exactly a command
\* name is at a distance below LEV_DIST_CUTOFF of `exit`, is shorter than the
\* length cutoff and gets a suggestion; the step that reads it leaves the
\* Conversation as it was, sends nothing and returns to the main prompt
C27_ShortLinesGetSuggestion ==
    [][\A line \in MatcherLines :
          ShortNonCommand(line) /\ ReadLine(line) =>
              /\ levenshtein_dist(line, W_exit) < LEV_DIST_CUTOFF
              /\ Len(line) < SIMILAR_COMMAND_LENGTH_CUTOFF
              /\ find_similar_command_name(line) # EMPTY
              /\ messages' = messages
              /\ request' = <<>>
              /\ pc' = "main"]_vars

\* a line of 5 characters at distance 5 of `exit` was read after a prompt was
\* saved under `a`: it was answered with a suggestion, the Conversation holds
\* no user Message and nothing was sent
C27_Witness ==
    /\ message = ZZZZZ
    /\ levenshtein_dist(message, W_exit) = 5
    /\ find_similar_command_name(message) # EMPTY
    /\ <<"a">> \in Range(prompt_names)
    /\ \A i \in 1..Len(messages) : messages[i].role # USER
    /\ request = <<>>
    /\ pc = "main"

====
